---- MODULE Spec2Model ----
(***************************************************************************)
(* LogExtractor (src/src/main.rs): order rotated gzip log segments by the  *)
(* number in their file name and concatenate their decompressed contents   *)
(* into one output file.                                                   *)
(*                                                                         *)
(* A file name is a sequence of one-character strings, so that rsplit(".") *)
(* and parse::<u32>() are computed character by character as the code      *)
(* computes them.  A u32 is kept at its full width as two 16-bit limbs     *)
(* <<hi, lo>> (value hi * 65536 + lo).                                     *)
(***************************************************************************)
EXTENDS Integers, Sequences, FiniteSets, TLC

VARIABLES
    input_files,  \* args.input_files
    outPath,      \* the output file on disk: [exists, data]
    outOpenable,  \* environment: whether OpenOptions::open of the output succeeds
    cap,          \* environment: bytes the output medium accepts for the file
    fs,           \* environment: segment files on disk, by name
    sorted,       \* value returned by sort_files (a Result)
    buf,          \* BufWriter's internal buffer
    idx,          \* position of the for loop in sorted
    opened,       \* names passed to File::open so far in this run
    pc,           \* position of main
    result,       \* value returned by main: [kind, name]
    unflushed,    \* bytes still in the BufWriter after it was dropped
    run,          \* 1 or 2: which execution of the program this is
    beforeRun,    \* the output file as it was when this execution started
    firstOut      \* the output file as the first execution left it

vars == <<input_files, outPath, outOpenable, cap, fs, sorted, buf, idx, opened,
          pc, result, unflushed, run, beforeRun, firstOut>>

\* ------------------------------------------------------------------ bounds
MaxFiles == 3
MaxSortFiles == 4
MaxCap == 5
BufCap == 2

\* ------------------------------------------------------------- characters
Digits == {"0", "1", "2", "3", "4", "5", "6", "7", "8", "9"}

\* char::to_digit(10) of a decimal digit
DigitVal(c) ==
    CASE c = "0" -> 0 [] c = "1" -> 1 [] c = "2" -> 2 [] c = "3" -> 3
      [] c = "4" -> 4 [] c = "5" -> 5 [] c = "6" -> 6 [] c = "7" -> 7
      [] c = "8" -> 8 [] c = "9" -> 9

\* ----------------------------------------------------------- u32 arithmetic
LimbBase == 65536

U32Zero == <<0, 0>>

\* result.wrapping_mul(10).wrapping_add(d): what the parse would compute
\* if it reduced modulo 2^32
WrappingMulAdd(acc, d) ==
    LET lo == acc[2] * 10 + d
        hi == acc[1] * 10 + (lo \div LimbBase)
    IN  [ok |-> TRUE, val |-> <<hi % LimbBase, lo % LimbBase>>]

\* result.checked_mul(10)?.checked_add(d)? of core::num's from_str_radix
CheckedMulAdd(acc, d) ==
    LET lo10 == acc[2] * 10
        hi10 == acc[1] * 10 + (lo10 \div LimbBase)
        lo   == (lo10 % LimbBase) + d
        hi   == hi10 + (lo \div LimbBase)
    IN  IF hi10 >= LimbBase \/ hi >= LimbBase
        THEN [ok |-> FALSE, val |-> U32Zero]
        ELSE [ok |-> TRUE, val |-> <<hi, lo % LimbBase>>]

\* Ord for u32, descending (the order a reversed comparison would give)
KeyGreater(a, b) == b[1] < a[1] \/ (b[1] = a[1] /\ b[2] < a[2])

\* Ord for u32: a < b
KeyLess(a, b) == a[1] < b[1] \/ (a[1] = b[1] /\ a[2] < b[2])

\* --------------------------------------------------------------- parsing
ParseOk(v) == [ok |-> TRUE, val |-> v, kind |-> "None"]
ParseErr(k) == [ok |-> FALSE, val |-> U32Zero, kind |-> k]

RECURSIVE ParseDigits(_, _, _)
ParseDigits(digits, i, acc) ==
    IF i > Len(digits) THEN ParseOk(acc)
    ELSE IF digits[i] \notin Digits THEN ParseErr("InvalidDigit")
    ELSE LET r == CheckedMulAdd(acc, DigitVal(digits[i]))
         IN  IF ~r.ok THEN ParseErr("PosOverflow")
             ELSE ParseDigits(digits, i + 1, r.val)

\* str::parse::<u32>(): an optional leading '+', then decimal digits only
ParseU32(seg) ==
    IF Len(seg) = 0 THEN ParseErr("Empty")
    ELSE IF Len(seg) = 1 /\ seg[1] \in {"+", "-"} THEN ParseErr("InvalidDigit")
    ELSE IF seg[1] = "+" THEN ParseDigits(Tail(seg), 1, U32Zero)
    ELSE ParseDigits(seg, 1, U32Zero)

\* index of the last '.' of s, 0 when there is none
LastDot(s) ==
    LET dots == {i \in 1..Len(s) : s[i] = "."}
    IN  IF dots = {} THEN 0 ELSE CHOOSE i \in dots : \A j \in dots : j <= i

\* item.rsplit("."): the '.'-delimited segments, rightmost first
RECURSIVE RSplit(_)
RSplit(s) ==
    IF LastDot(s) = 0 THEN <<s>>
    ELSE <<SubSeq(s, LastDot(s) + 1, Len(s))>>
         \o RSplit(SubSeq(s, 1, LastDot(s) - 1))

\* .skip(0).next(): the mistake of taking the last segment as the key
LastSegment(item) == [some |-> TRUE, seg |-> RSplit(item)[1]]

\* .rsplit(".").skip(1).next(): the last-but-one segment, if there is one
KeySegment(item) ==
    IF Len(RSplit(item)) >= 2
    THEN [some |-> TRUE, seg |-> RSplit(item)[2]]
    ELSE [some |-> FALSE, seg |-> <<>>]

\* the closure of sort_files: Ok((number, item)) or the first error
ExtractKey(item) ==
    LET k == KeySegment(item)
    IN  IF ~k.some
        THEN [ok |-> FALSE, key |-> U32Zero, err |-> "WrongFormat", errName |-> item]
        ELSE LET p == ParseU32(k.seg)
             IN  IF ~p.ok
                 THEN [ok |-> FALSE, key |-> U32Zero, err |-> "ParseInt", errName |-> <<>>]
                 ELSE [ok |-> TRUE, key |-> p.val, err |-> "None", errName |-> <<>>]

\* ------------------------------------------------------------- BTreeMap
\* The map is the sequence of its entries in ascending key order.
InsertAt(m, k, v) ==
    LET n == Cardinality({i \in 1..Len(m) : KeyLess(m[i].key, k)})
    IN  SubSeq(m, 1, n) \o <<[key |-> k, value |-> v]>> \o SubSeq(m, n + 1, Len(m))

\* entry(k).or_insert(v): an existing entry keeps its value
BTreeInsertKeepFirst(m, k, v) ==
    IF \E i \in 1..Len(m) : m[i].key = k THEN m ELSE InsertAt(m, k, v)

\* Collecting (key, value) pairs into a BTreeMap: a later pair replaces an
\* earlier one with the same key
BTreeInsert(m, k, v) ==
    IF \E i \in 1..Len(m) : m[i].key = k
    THEN [i \in 1..Len(m) |-> IF m[i].key = k THEN [key |-> k, value |-> v] ELSE m[i]]
    ELSE InsertAt(m, k, v)

\* into_iter().map(|(_, value)| value).collect()
Values(m) == [i \in 1..Len(m) |-> m[i].value]

SortOk(names) == [ok |-> TRUE, names |-> names, err |-> "None", errName |-> <<>>]
SortErr(e, n) == [ok |-> FALSE, names |-> <<>>, err |-> e, errName |-> n]

RECURSIVE Collect(_, _, _)
Collect(files, i, m) ==
    IF i > Len(files) THEN SortOk(Values(m))
    ELSE LET r == ExtractKey(files[i])
         IN  IF ~r.ok THEN SortErr(r.err, r.errName)
             ELSE Collect(files, i + 1, BTreeInsert(m, r.key, files[i]))

sort_files(files) == Collect(files, 1, <<>>)

\* ------------------------------------------------------------ file names
Dot == <<".">>
Gz == <<"g", "z">>
Name(stem, key, ext) == stem \o Dot \o key \o Dot \o ext

ALog == <<"a", ".", "l", "o", "g">>
BLog == <<"b", ".", "l", "o", "g">>

\* u32::MAX = 4294967295 as a key segment
MaxDigits == <<"4", "2", "9", "4", "9", "6", "7", "2", "9", "5">>

\* names given to sort_files on its own (tests::sort_inputs_test and more)
SortNames ==
    { Name(ALog, <<"4">>, Gz), Name(ALog, <<"1">>, Gz),
      Name(ALog, <<"3", "0">>, Gz), Name(ALog, <<"2">>, Gz),
      Name(BLog, <<"4">>, Gz),
      Name(ALog, <<"0", "4">>, Gz),
      Name(ALog, <<"+", "4">>, Gz),
      <<"n", "o", "e", "x", "t">>,
      <<"4">> \o Dot \o Gz,
      Name(ALog, <<"x">>, Gz),
      Name(ALog, MaxDigits, Gz),
      Name(ALog, <<"4", "2", "9", "4", "9", "6", "7", "3", "0", "0">>, Gz) }

P1 == Name(<<"a">>, <<"1">>, Gz)
P2 == Name(<<"a">>, <<"2">>, Gz)
P3 == Name(<<"a">>, <<"3">>, Gz)
Bad == Name(<<"a">>, <<"x">>, Gz)

\* names given to the whole program
PipeNames == {P1, P2, P3, Bad}

\* what each segment decompresses to when it is a valid gzip file
Content(name) ==
    CASE name = P1 -> <<"A", "a">>
      [] name = P2 -> <<"B">>
      [] name = P3 -> <<"C", "c">>
      [] OTHER -> <<"E">>

SeqsUpTo(S, n) == UNION {[1..k -> S] : k \in 0..n}

Range(s) == {s[i] : i \in 1..Len(s)}

\* A segment on disk is missing, a valid gzip file, or a damaged one.  data
\* is what the GzDecoder over the file yields before it ends or fails: the
\* content of a valid file; for a damaged file whatever the damaged data
\* decode to, which may be nothing, a part of the content, all of it (bad
\* checksum, cut footer), other bytes, or more bytes than the content.
Missing == [kind |-> "missing", data |-> <<>>]
Valid(name) == [kind |-> "valid", data |-> Content(name)]

\* a byte that is in no segment's content
Stray == "Q"

\* the byte sequences a damaged file of this name is taken to decode to:
\* all those over the content's bytes and a stray one, up to one byte
\* longer than the content
DamagedYields(name) ==
    SeqsUpTo(Range(Content(name)) \cup {Stray}, Len(Content(name)) + 1)

FileStates(name) ==
    {Missing, Valid(name)}
    \cup {[kind |-> "corrupt", data |-> d] : d \in DamagedYields(name)}

\* what the GzDecoder over the segment yields before it ends or fails
Yield(name) == fs[name].data

\* the output file before a run: absent, or holding earlier content
OldFiles ==
    { [exists |-> FALSE, data |-> <<>>],
      [exists |-> TRUE, data |-> <<"z", "z", "z">>] }

SortNone == [ok |-> FALSE, names |-> <<>>, err |-> "NotCalled", errName |-> <<>>]
NoResult == [kind |-> "None", name |-> <<>>]
Res(k, n) == [kind |-> k, name |-> n]

\* ------------------------------------------------------------- the sink
Min(a, b) == IF a < b THEN a ELSE b
Max(a, b) == IF a < b THEN b ELSE a

\* OpenOptions::new().append(true).create(true): earlier content stays
OpenAppend(f) == [exists |-> TRUE, data |-> IF f.exists THEN f.data ELSE <<>>]

\* OpenOptions::new().truncate(true).write(true).create(true).open(path)
OpenTruncate(f) == [exists |-> TRUE, data |-> <<>>]

\* File::write of bytes at the end of the file: the medium takes what fits
Accepted(data, bytes) == Min(Len(bytes), Max(cap - Len(data), 0))

\* BufWriter::flush_buf: write the buffer out; what was written leaves the
\* buffer, and failure is reported when not all of it could be written
FlushBuf(w) ==
    LET n == Accepted(w.file, w.buf)
    IN  [file |-> w.file \o SubSeq(w.buf, 1, n),
         buf  |-> SubSeq(w.buf, n + 1, Len(w.buf)),
         ok   |-> n = Len(w.buf)]

\* a copy through BufWriter::write_all: bytes stay in the buffer until it
\* is full, and the last ones are still there when the copy returns
RECURSIVE BufferedCopy(_, _, _)
BufferedCopy(w, data, i) ==
    IF i > Len(data) \/ ~w.ok THEN w
    ELSE LET f == IF Len(w.buf) + 1 > BufCap THEN FlushBuf(w) ELSE w
         IN  IF ~f.ok THEN f
             ELSE BufferedCopy([f EXCEPT !.buf = f.buf \o <<data[i]>>], data, i + 1)

\* io::copy(&mut decoder, writer) with a BufWriter as the writer: the decoder
\* is read into the buffer's spare capacity, and a buffer that is not empty
\* is flushed before each further read, so the copy returns (at the read
\* that finds the end of the stream, or the decoder's error) with the buffer
\* empty, or with the error of a flush that failed
RECURSIVE Copy(_, _, _)
Copy(w, data, i) ==
    IF ~w.ok THEN w
    ELSE IF w.buf # <<>> THEN Copy(FlushBuf(w), data, i)
    ELSE IF i > Len(data) THEN w
    ELSE Copy([w EXCEPT !.buf = SubSeq(data, i, Min(Len(data), i + BufCap - 1))],
              data, i + BufCap)

\* Drop for BufWriter: flush_buf with its error discarded
DropWriter(w) == FlushBuf(w)

Writer == [file |-> outPath.data, buf |-> buf, ok |-> TRUE]

\* main returns r; its locals are dropped, the writer among them
Return(w, r) ==
    /\ outPath' = [exists |-> TRUE, data |-> DropWriter(w).file]
    /\ unflushed' = DropWriter(w).buf
    /\ buf' = <<>>
    /\ result' = r
    /\ pc' = "done"

\* ------------------------------------------------------------------ main
Env == <<input_files, outOpenable, cap, fs, run, beforeRun, firstOut>>

\* main with the output opened before the names are sorted
Main_OpenThenSort ==
    /\ pc = "start"
    /\ sorted' = sort_files(input_files)
    /\ outPath' = IF outOpenable THEN OpenTruncate(outPath) ELSE outPath
    /\ IF sorted'.ok
       THEN pc' = "open_output" /\ result' = result
       ELSE pc' = "done" /\ result' = Res("SortError", sorted'.errName)
    /\ UNCHANGED <<Env, buf, idx, opened, unflushed>>

\* let sorted = sort_files(&args.input_files)?;
Main_SortFiles ==
    /\ pc = "start"
    /\ sorted' = sort_files(input_files)
    /\ IF sorted'.ok
       THEN pc' = "open_output" /\ result' = result
       ELSE pc' = "done" /\ result' = Res("SortError", sorted'.errName)
    /\ UNCHANGED <<Env, outPath, buf, idx, opened, unflushed>>

\* let output_file = OpenOptions::new()...open(args.output_file)?;
\* let mut writer = BufWriter::new(output_file);
Main_OpenOutput ==
    /\ pc = "open_output"
    /\ IF outOpenable
       THEN /\ outPath' = OpenTruncate(outPath)
            /\ pc' = "loop"
            /\ result' = result
       ELSE /\ outPath' = outPath
            /\ pc' = "done"
            /\ result' = Res("OutputOpenFailed", <<>>)
    /\ buf' = <<>>
    /\ idx' = 1
    /\ UNCHANGED <<Env, sorted, opened, unflushed>>

\* File::open with a missing file skipped instead of failing the run
Main_OpenSegmentSkip ==
    /\ pc = "loop"
    /\ idx <= Len(sorted.names)
    /\ opened' = Append(opened, sorted.names[idx])
    /\ IF fs[sorted.names[idx]].kind = "missing"
       THEN pc' = "loop" /\ idx' = idx + 1
       ELSE pc' = "decompress" /\ idx' = idx
    /\ UNCHANGED <<Env, sorted, outPath, buf, result, unflushed>>

\* for filepath in &sorted { let file = File::open(filepath).with_context(..)?;
Main_OpenSegment ==
    /\ pc = "loop"
    /\ idx <= Len(sorted.names)
    /\ opened' = Append(opened, sorted.names[idx])
    /\ IF fs[sorted.names[idx]].kind = "missing"
       THEN Return(Writer, Res("SegmentOpenFailed", sorted.names[idx]))
       ELSE pc' = "decompress" /\ UNCHANGED <<outPath, buf, result, unflushed>>
    /\ UNCHANGED <<Env, sorted, idx>>

\* let _ = decompress_into(reader, &mut writer): the error of a damaged
\* segment dropped
Main_DecompressIgnoreErr ==
    /\ pc = "decompress"
    /\ LET name == sorted.names[idx]
           w == Copy(Writer, Yield(name), 1)
       IN  IF ~w.ok THEN Return(w, Res("SinkIOFailed", <<>>)) /\ idx' = idx
           ELSE /\ outPath' = [exists |-> TRUE, data |-> w.file]
                /\ buf' = w.buf
                /\ idx' = idx + 1
                /\ pc' = "loop"
                /\ UNCHANGED <<result, unflushed>>
    /\ UNCHANGED <<Env, sorted, opened>>

\* decompress_into(reader, &mut writer)?;
Main_Decompress ==
    /\ pc = "decompress"
    /\ LET name == sorted.names[idx]
           w == Copy(Writer, Yield(name), 1)
       IN  IF ~w.ok THEN Return(w, Res("SinkIOFailed", <<>>)) /\ idx' = idx
           ELSE IF fs[name].kind = "corrupt"
           THEN Return(w, Res("DecompressFailed", <<>>)) /\ idx' = idx
           ELSE /\ outPath' = [exists |-> TRUE, data |-> w.file]
                /\ buf' = w.buf
                /\ idx' = idx + 1
                /\ pc' = "loop"
                /\ UNCHANGED <<result, unflushed>>
    /\ UNCHANGED <<Env, sorted, opened>>

\* bar.finish(); Ok(())
Main_Finish ==
    /\ pc = "loop"
    /\ idx > Len(sorted.names)
    /\ Return(Writer, Res("Ok", <<>>))
    /\ UNCHANGED <<Env, sorted, idx, opened>>

\* The program is run again with the same arguments on the same files; the
\* output file is what the first run left, or something put there since.
Rerun ==
    /\ pc = "done"
    /\ run = 1
    /\ run' = 2
    /\ firstOut' = outPath
    /\ \E f \in {outPath} \cup OldFiles :
          outPath' = f /\ beforeRun' = f
    /\ pc' = "start"
    /\ sorted' = SortNone
    /\ buf' = <<>>
    /\ idx' = 1
    /\ opened' = <<>>
    /\ result' = NoResult
    /\ unflushed' = <<>>
    /\ UNCHANGED <<input_files, outOpenable, cap, fs>>

\* The states of the segments in the order the run opens them.  The run
\* ends at the first segment that is missing or damaged, so of the later
\* ones only whether they exist is told apart.
RECURSIVE DiskStates(_, _)
DiskStates(names, ended) ==
    IF names = <<>> THEN {<<>>}
    ELSE LET n == Head(names)
             S == IF ended THEN {Missing, Valid(n)} ELSE FileStates(n)
         IN  UNION { { <<st>> \o rest :
                         rest \in DiskStates(Tail(names), ended \/ st.kind # "valid") } :
                     st \in S }

\* sort_files accepts the name
Accepts(n) == ExtractKey(n).ok

\* the disks the program can find for its arguments; files it never opens
\* (not among the arguments, dropped or rejected by sort_files) are left out
Disks(files) ==
    LET s == sort_files(files)
        names == IF s.ok THEN s.names
                 ELSE sort_files(SelectSeq(files, Accepts)).names
    IN  { [n \in PipeNames |->
             IF \E i \in 1..Len(names) : names[i] = n
             THEN t[CHOOSE i \in 1..Len(names) : names[i] = n]
             ELSE Missing] :
          t \in DiskStates(names, ~s.ok) }

\* The state when the program starts.  The environment is fixed for the whole
\* behaviour: which segments exist and what they hold, whether the output
\* path can be opened, and how many bytes the output medium takes.  The
\* output path is none of the input paths.
Init ==
    /\ input_files \in SeqsUpTo(PipeNames, MaxFiles)
    /\ outPath \in OldFiles
    /\ beforeRun = outPath
    /\ outOpenable \in BOOLEAN
    /\ cap \in 0..MaxCap
    /\ fs \in Disks(input_files)
    /\ sorted = SortNone
    /\ buf = <<>>
    /\ idx = 1
    /\ opened = <<>>
    /\ pc = "start"
    /\ result = NoResult
    /\ unflushed = <<>>
    /\ run = 1
    /\ firstOut = outPath

Next ==
    \/ Main_SortFiles
    \/ Main_OpenOutput
    \/ Main_OpenSegment
    \/ Main_Decompress
    \/ Main_Finish
    \/ Rerun

Spec == Init /\ [][Next]_vars

\* ------------------------------------------------- sort_files on its own
\* assert_eq!(expected, sort_files(&inputs)?) of tests::sort_inputs_test
CallSortFiles ==
    /\ pc = "start"
    /\ sorted' = sort_files(input_files)
    /\ pc' = "returned"
    /\ UNCHANGED <<Env, outPath, buf, idx, opened, result, unflushed>>

SortInit ==
    /\ input_files \in SeqsUpTo(SortNames, MaxSortFiles)
    /\ outPath = [exists |-> FALSE, data |-> <<>>]
    /\ beforeRun = outPath
    /\ outOpenable = TRUE
    /\ cap = 0
    /\ fs = [n \in PipeNames |-> Missing]
    /\ sorted = SortNone
    /\ buf = <<>>
    /\ idx = 1
    /\ opened = <<>>
    /\ pc = "start"
    /\ result = NoResult
    /\ unflushed = <<>>
    /\ run = 1
    /\ firstOut = outPath

SortNext == CallSortFiles

SortSpec == SortInit /\ [][SortNext]_vars

\* ================================================================ claims
\* What the claims speak of, stated on the text of the names and on the
\* files, not through the program's own parsing or sorting.

IsPrefix(p, s) == Len(p) <= Len(s) /\ SubSeq(s, 1, Len(p)) = p

DotsOf(s) == {i \in 1..Len(s) : s[i] = "."}

\* number of '.'-delimited segments
NumSegments(s) == Cardinality(DotsOf(s)) + 1

\* the text between the last two dots (from the start when there is one dot)
KeyText(s) ==
    LET last == CHOOSE i \in DotsOf(s) : \A j \in DotsOf(s) : j <= i
        rest == DotsOf(s) \ {last}
        prev == IF rest = {} THEN 0 ELSE CHOOSE i \in rest : \A j \in rest : j <= i
    IN  SubSeq(s, prev + 1, last - 1)

IsDecimal(t) == Len(t) > 0 /\ \A i \in 1..Len(t) : t[i] \in Digits

\* a non-negative integer in decimal, with or without a leading plus sign
IsNumeral(t) == IsDecimal(t) \/ (Len(t) > 1 /\ t[1] = "+" /\ IsDecimal(Tail(t)))

RECURSIVE StripZeros(_)
StripZeros(d) == IF Len(d) > 1 /\ d[1] = "0" THEN StripZeros(Tail(d)) ELSE d

\* the numeral without sign and leading zeros: one text per integer
Canon(t) == StripZeros(IF t[1] = "+" THEN Tail(t) ELSE t)

\* a < b for integers given as canonical decimal texts
NumLess(a, b) ==
    \/ Len(a) < Len(b)
    \/ /\ Len(a) = Len(b)
       /\ \E i \in 1..Len(a) :
             /\ DigitVal(a[i]) < DigitVal(b[i])
             /\ \A j \in 1..(i - 1) : a[j] = b[j]

\* the integer N of a name <stem>.<N>.<ext>
NumOf(name) == Canon(KeyText(name))

HasKey(name) == NumSegments(name) >= 2 /\ IsNumeral(KeyText(name))
StemNExt(name) == NumSegments(name) >= 3 /\ IsNumeral(KeyText(name))
FitsU32(name) == ~NumLess(MaxDigits, NumOf(name))
Malformed(name) == NumSegments(name) < 2 \/ ~IsNumeral(KeyText(name))

Perms(files) ==
    LET n == Len(files)
    IN  { [i \in 1..n |-> files[f[i]]] :
            f \in {g \in [1..n -> 1..n] : \A i, j \in 1..n : g[i] = g[j] => i = j} }

\* the names are all the inputs, each once, in ascending order of N
SortedByN(names, files) ==
    /\ Len(names) = Len(files)
    /\ Range(names) = Range(files)
    /\ \A i, j \in 1..Len(names) : i < j => NumLess(NumOf(names[i]), NumOf(names[j]))

DistinctN(files) ==
    \A i, j \in 1..Len(files) : i # j => NumOf(files[i]) # NumOf(files[j])

OrderingHolds ==
    /\ sorted.ok
    /\ SortedByN(sorted.names, input_files)
    /\ \A p \in Perms(input_files) : sort_files(p) = sorted

\* C1 as stated: for every list of names <stem>.<N>.<ext> with a distinct
\* non-negative integer N each, sort_files succeeds and returns exactly
\* those names in ascending numeric order of N, the same for every
\* permutation of the list.
C1_OrderingAnyN ==
    (/\ pc = "returned"
     /\ \A i \in 1..Len(input_files) : StemNExt(input_files[i])
     /\ DistinctN(input_files))
    => OrderingHolds

\* C1 amended: the same for names whose N is at most 4294967295 (u32::MAX).
C1_OrderingU32 ==
    (/\ pc = "returned"
     /\ \A i \in 1..Len(input_files) : StemNExt(input_files[i]) /\ FitsU32(input_files[i])
     /\ DistinctN(input_files))
    => OrderingHolds

C1_Witness ==
    /\ pc = "returned"
    /\ input_files = << Name(ALog, <<"4">>, Gz), Name(ALog, <<"1">>, Gz),
                        Name(ALog, <<"3", "0">>, Gz), Name(ALog, <<"2">>, Gz) >>
    /\ sorted.ok
    /\ sorted.names = << Name(ALog, <<"1">>, Gz), Name(ALog, <<"2">>, Gz),
                         Name(ALog, <<"4">>, Gz), Name(ALog, <<"3", "0">>, Gz) >>

\* C3: whenever sort_files succeeds, the returned sequence is as long as the
\* input list and contains every input name, also when two names have the
\* same key.
C3_LengthPreserved ==
    (pc = "returned" /\ sorted.ok)
    => /\ Len(sorted.names) = Len(input_files)
       /\ Range(input_files) \subseteq Range(sorted.names)

\* C4: a list with a name that has fewer than two '.'-delimited segments, or
\* whose last-but-one segment is no non-negative integer, makes sort_files
\* return an error wherever the name stands in the list; the error for a
\* name without a key segment carries that name (the error returned is that
\* of the first name that fails).
C4_MalformedRejected ==
    pc = "returned" =>
      /\ (\E i \in 1..Len(input_files) : Malformed(input_files[i]))
            => ~sorted.ok /\ sorted.err \in {"WrongFormat", "ParseInt"}
      /\ \A i \in 1..Len(input_files) :
            (/\ NumSegments(input_files[i]) < 2
             /\ \A j \in 1..(i - 1) : HasKey(input_files[j]) /\ FitsU32(input_files[j]))
            => sorted.err = "WrongFormat" /\ sorted.errName = input_files[i]
      /\ sorted.err = "WrongFormat"
            => \E i \in 1..Len(input_files) :
                  sorted.errName = input_files[i] /\ NumSegments(input_files[i]) < 2

C4_Witness ==
    /\ pc = "returned"
    /\ Len(input_files) = 3
    /\ ~Malformed(input_files[1]) /\ ~Malformed(input_files[2])
    /\ input_files[3] = <<"n", "o", "e", "x", "t">>
    /\ ~sorted.ok
    /\ sorted.err = "WrongFormat"
    /\ sorted.errName = input_files[3]

SameN(a, b) == NumOf(a) = NumOf(b)

\* C9: when distinct input names have the same key and sort_files does not
\* fail, the result holds exactly one name for that key, the one of them
\* that comes last in the input list, and the result is in ascending key
\* order.
C9_LastWins ==
    (pc = "returned" /\ sorted.ok) =>
      /\ \A i, j \in 1..Len(input_files) :
            (i < j /\ input_files[i] # input_files[j]
                   /\ SameN(input_files[i], input_files[j]))
            => LET last == CHOOSE k \in 1..Len(input_files) :
                              /\ SameN(input_files[k], input_files[i])
                              /\ \A l \in 1..Len(input_files) :
                                    SameN(input_files[l], input_files[i]) => l <= k
                   at == {k \in 1..Len(sorted.names) : SameN(sorted.names[k], input_files[i])}
               IN  /\ Cardinality(at) = 1
                   /\ \A k \in at : sorted.names[k] = input_files[last]
      /\ \A k, l \in 1..Len(sorted.names) :
            k < l => NumLess(NumOf(sorted.names[k]), NumOf(sorted.names[l]))

C9_Witness ==
    /\ pc = "returned"
    /\ input_files = << Name(BLog, <<"4">>, Gz), Name(ALog, <<"1">>, Gz),
                        Name(ALog, <<"0", "4">>, Gz) >>
    /\ sorted.ok
    /\ sorted.names = << Name(ALog, <<"1">>, Gz), Name(ALog, <<"0", "4">>, Gz) >>

\* C10: a name whose key segment denotes an integer above 4294967295 makes
\* sort_files fail; keys are never reduced modulo 2^32, so in a successful
\* result two names with different integers both appear, the smaller first.
C10_NoWrapAround ==
    pc = "returned" =>
      /\ (\E i \in 1..Len(input_files) :
             HasKey(input_files[i]) /\ ~FitsU32(input_files[i]))
            => ~sorted.ok
      /\ sorted.ok =>
            \A i, j \in 1..Len(input_files) :
               NumLess(NumOf(input_files[i]), NumOf(input_files[j]))
               => \E k, l \in 1..Len(sorted.names) :
                     /\ k < l
                     /\ SameN(sorted.names[k], input_files[i])
                     /\ SameN(sorted.names[l], input_files[j])

C10_Witness ==
    /\ pc = "returned"
    /\ input_files = << Name(ALog, <<"4">>, Gz),
                        Name(ALog, <<"4", "2", "9", "4", "9", "6", "7", "3", "0", "0">>, Gz) >>
    /\ ~sorted.ok
    /\ sorted.err = "ParseInt"

\* ------------------------------------------------------ the whole program
RECURSIVE ConcatContent(_)
ConcatContent(names) ==
    IF names = <<>> THEN <<>> ELSE Content(Head(names)) \o ConcatContent(Tail(names))

\* C2: when every segment was opened and decompressed successfully, the
\* output file after the run holds exactly the decompressed contents of the
\* segments, one after the other in the order of the ordered sequence.
C2_ConcatInOrder ==
    (pc = "done" /\ result.kind = "Ok")
    => outPath.exists /\ outPath.data = ConcatContent(sorted.names)

C2_Witness ==
    /\ pc = "done"
    /\ result.kind = "Ok"
    /\ input_files = <<P3, P1, P2>>
    /\ sorted.names = <<P1, P2, P3>>
    /\ outPath.data = <<"A", "a", "B", "C", "c">>

\* C5: when a segment of the ordered sequence cannot be opened, the run
\* fails with an error naming it, it is the last segment the run opened,
\* every segment before it was opened in order, and the output file holds
\* at most the contents of the segments before it.
C5_AbortOnMissing ==
    \A j \in 1..Len(opened) :
       fs[opened[j]].kind = "missing" =>
          /\ pc = "done"
          /\ result = Res("SegmentOpenFailed", opened[j])
          /\ j = Len(opened)
          /\ opened = SubSeq(sorted.names, 1, j)
          /\ IsPrefix(outPath.data, ConcatContent(SubSeq(sorted.names, 1, j - 1)))

C5_Witness ==
    /\ pc = "done"
    /\ Len(sorted.names) = 3
    /\ Len(opened) = 2
    /\ fs[sorted.names[2]].kind = "missing"
    /\ fs[sorted.names[3]].kind = "valid"
    /\ result = Res("SegmentOpenFailed", sorted.names[2])
    /\ outPath.data = Content(sorted.names[1])

\* C6: the run reports success only when every buffered byte has reached
\* the output file; a write or flush that fails, the flush of the last
\* segment's bytes included, makes the run fail with that error.
C6_FlushBeforeSuccess ==
    pc = "done" =>
      /\ unflushed # <<>> => result.kind = "SinkIOFailed"
      /\ result.kind = "Ok" =>
            /\ unflushed = <<>>
            /\ Len(outPath.data) <= cap
            /\ Len(outPath.data) = Len(ConcatContent(sorted.names))

C6_Witness ==
    /\ pc = "done"
    /\ Len(sorted.names) = 3
    /\ idx = 3
    /\ \A i \in 1..3 : fs[sorted.names[i]].kind = "valid"
    /\ result.kind = "SinkIOFailed"
    /\ unflushed # <<>>
    /\ IsPrefix(ConcatContent(SubSeq(sorted.names, 1, 2)), outPath.data)

\* C7 as stated: after the second of two runs with the same arguments the
\* output file is what it was after the first, whatever it held before each.
C7_Idempotent ==
    (run = 2 /\ pc = "done") => outPath = firstOut

\* C7 amended: the same for runs that get as far as opening the output file
\* (sort_files succeeds and the open succeeds).
C7_IdempotentOnceOpened ==
    (run = 2 /\ pc = "done" /\ sorted.ok /\ outOpenable) => outPath = firstOut

C7_Witness ==
    /\ run = 2
    /\ pc = "done"
    /\ sorted.ok
    /\ outOpenable
    /\ beforeRun # firstOut
    /\ Len(outPath.data) >= 3
    /\ outPath = firstOut

\* C8: when sort_files fails, the run ends at once with that error: no
\* segment was opened and the output file is as it was before the run.
C8_NoIOOnSortError ==
    (pc # "start" /\ ~sorted.ok)
    => /\ pc = "done"
       /\ result.kind = "SortError"
       /\ opened = <<>>
       /\ outPath = beforeRun

C8_Witness ==
    /\ pc = "done"
    /\ result.kind = "SortError"
    /\ \E n \in Range(input_files) : fs[n].kind = "valid"
    /\ beforeRun.exists
    /\ beforeRun.data # <<>>
    /\ outPath = beforeRun
    /\ outOpenable

====
